---- MODULE Spec2Model ----
(***************************************************************************)
(* The effect algebra of @effectdeck/core: the four primitive effects      *)
(* (damage, heal, draw, resource) and the combinators of Effect.ts         *)
(* (composite, sequential, parallel, chained, conditional, repeated,       *)
(* contextual), executed against immutable game states.                    *)
(*                                                                         *)
(* A GameState is a record [players, currentPlayer, turn, phase].  The     *)
(* `players` mapping (a JavaScript object, enumerated in insertion order)  *)
(* is a sequence of PlayerState records, each found by its id.  A          *)
(* GameContext is a function from field names to values, so that the       *)
(* object spreads of the combinators can be modelled field by field.       *)
(***************************************************************************)
EXTENDS Integers, Sequences, FiniteSets, TLC

VARIABLES gameState, effect, context, result, calls, chainArgs, drawing,
          contexts, created, history, lastCall,
          handlers, handlerSets, unsubscribes, lastEmit,
          data, saved, lastStorage

\* One execution: the state and effect given, and what came back.
effectVars == <<gameState, effect, context, result, calls, chainArgs>>

\* The capability registry: the Context objects made so far, the number of
\* service instances the factories have made, what happened to each Context,
\* and the last call with what it returned.
registryVars == <<contexts, created, history, lastCall>>

\* The event bus: its Map from events to Set objects, the Set objects made
\* so far, the unsubscribe functions returned so far, and the last emit with
\* the handler calls it made.
busVars == <<handlers, handlerSets, unsubscribes, lastEmit>>

\* The storage: its Map from keys to stored values, the value each key was
\* last saved with by its caller, and the last load or exists with what it
\* returned.
storageVars == <<data, saved, lastStorage>>

\* What the effects never touch.
restVars == <<registryVars, busVars, storageVars>>

vars == <<effectVars, drawing, restVars>>

\* No call was made on a registry yet.
NoCall == [op |-> "none"]

\* Nothing was emitted yet.
NoEmit == [op |-> "none"]

\* No event bus exists.
BusUnused ==
    /\ handlers = <<>>
    /\ handlerSets = <<>>
    /\ unsubscribes = <<>>
    /\ lastEmit = NoEmit

\* No storage exists.
StorageUnused ==
    /\ data = <<>>
    /\ saved = <<>>
    /\ lastStorage = NoCall

\* No registry, no event bus and no storage exist.
RestUnused ==
    /\ contexts = <<>>
    /\ created = 0
    /\ history = <<>>
    /\ lastCall = NoCall
    /\ BusUnused
    /\ StorageUnused

(***************************************************************************)
(* Bounds of the model.                                                    *)
(***************************************************************************)
MaxHealth == 2      \* maxHealth of every player of the input states
MaxResource == 2    \* largest amount of mana a player of the input states holds
MaxList == 3        \* longest list of a composite, sequential or parallel
MaxTimes == 3       \* largest count of a repeated effect

(***************************************************************************)
(* JavaScript values.                                                      *)
(***************************************************************************)
\* `undefined`: what a missing property and Array.prototype.find yield.
Undefined == "<undefined>"

\* !x for a string-or-undefined x: undefined and the empty string are falsy.
Falsy(x) == x = Undefined \/ x = ""

Min(a, b) == IF a < b THEN a ELSE b

RECURSIVE Flatten(_)
\* results.flatMap(r => r.messages), and allMessages.push(...) in a loop.
Flatten(seqs) == IF seqs = <<>> THEN <<>> ELSE Head(seqs) \o Flatten(Tail(seqs))

\* { ...context, [key]: value }
Spread(ctx, key, value) ==
    [f \in DOMAIN ctx \cup {key} |-> IF f = key THEN value ELSE ctx[f]]

(***************************************************************************)
(* The players mapping.                                                    *)
(***************************************************************************)
\* players[id] as an index into the mapping, 0 when there is no such key
IndexOf(players, id) ==
    IF \E i \in 1..Len(players) : players[i].id = id
    THEN CHOOSE i \in 1..Len(players) : players[i].id = id
    ELSE 0

\* whether players[id] is a player (not undefined)
Has(players, id) == IndexOf(players, id) # 0

\* players[id], for an id the mapping has
Lookup(players, id) == players[IndexOf(players, id)]

\* A search that yields the first key, whoever it belongs to.
FindOtherFirstKey(players, playerId) ==
    IF Len(players) > 0 THEN players[1].id ELSE Undefined

\* A search that yields the last key that differs, not the first.
FindOtherLast(players, playerId) ==
    IF \E i \in 1..Len(players) : players[i].id # playerId
    THEN players[CHOOSE i \in 1..Len(players) :
                    /\ players[i].id # playerId
                    /\ \A j \in (i + 1)..Len(players) : players[j].id = playerId].id
    ELSE Undefined

\* Object.keys(players).find(id => id !== playerId)
FindOther(players, playerId) ==
    IF \E i \in 1..Len(players) : players[i].id # playerId
    THEN players[CHOOSE i \in 1..Len(players) :
                    /\ players[i].id # playerId
                    /\ \A j \in 1..(i - 1) : players[j].id = playerId].id
    ELSE Undefined

\* produce(gameState, draft => { draft.players[id] = player })
WithPlayer(state, id, player) ==
    [state EXCEPT !.players[IndexOf(state.players, id)] = player]

\* resources[resourceType] || 0
ResourceAmount(resources, resourceType) ==
    IF resourceType \in DOMAIN resources THEN resources[resourceType] ELSE 0

\* A write that replaces the resources mapping by the one entry written.
SetResourceAlone(resources, resourceType, amount) ==
    [t \in {resourceType} |-> amount]

\* resources[resourceType] = amount
SetResource(resources, resourceType, amount) ==
    [t \in DOMAIN resources \cup {resourceType} |->
        IF t = resourceType THEN amount ELSE resources[t]]

(***************************************************************************)
(* Primitive effects.  Each returns an EffectResult                        *)
(* [success, newState, messages].                                          *)
(***************************************************************************)
\* A damage that is not limited to the health the player has left.
DamagePlayerUnclamped(player, amount) ==
    [ player |-> [player EXCEPT !.health = @ - amount],
      message |-> player.id \o " takes " \o ToString(amount) \o " damage" ]

\* One player's share of a damage: actualDamage and the player after it.
DamagePlayer(player, amount) ==
    LET actualDamage == Min(amount, player.health)
    IN  [ player |-> [player EXCEPT !.health = @ - actualDamage],
          message |-> player.id \o " takes " \o ToString(actualDamage) \o " damage" ]

\* DamageEffect.execute
DamageExecute(e, ctx) ==
    LET state == ctx.gameState
        playerId == ctx.playerId
        players == state.players
    IN  CASE e.target = "self" ->
               LET selfPlayer == Lookup(players, playerId)
               IN  IF Has(players, playerId)
                   THEN LET d == DamagePlayer(selfPlayer, e.amount)
                        IN  [ success |-> TRUE,
                              newState |-> WithPlayer(state, playerId, d.player),
                              messages |-> << d.message >> ]
                   ELSE [ success |-> FALSE,
                          newState |-> state,
                          messages |-> << "Player " \o playerId \o " not found" >> ]
          [] e.target = "opponent" ->
               LET opponentId == FindOther(players, playerId)
               IN  IF ~Falsy(opponentId)
                   THEN LET d == DamagePlayer(Lookup(players, opponentId), e.amount)
                        IN  [ success |-> TRUE,
                              newState |-> WithPlayer(state, opponentId, d.player),
                              messages |-> << d.message >> ]
                   ELSE [ success |-> FALSE,
                          newState |-> state,
                          messages |-> << "No opponent found" >> ]
          [] e.target = "all" ->
               [ success |-> TRUE,
                 newState |-> [state EXCEPT !.players =
                                 [i \in 1..Len(players) |->
                                     DamagePlayer(players[i], e.amount).player]],
                 messages |-> [i \in 1..Len(players) |->
                                  DamagePlayer(players[i], e.amount).message] ]

\* One player's share of a heal: actualHeal and the player after it.
HealPlayer(player, amount) ==
    LET actualHeal == Min(amount, player.maxHealth - player.health)
    IN  [ player |-> [player EXCEPT !.health = @ + actualHeal],
          message |-> player.id \o " heals " \o ToString(actualHeal) \o " health" ]

\* HealEffect.execute
HealExecute(e, ctx) ==
    LET state == ctx.gameState
        playerId == ctx.playerId
        players == state.players
    IN  CASE e.target = "self" ->
               LET selfPlayer == Lookup(players, playerId)
               IN  IF Has(players, playerId)
                   THEN LET h == HealPlayer(selfPlayer, e.amount)
                        IN  [ success |-> TRUE,
                              newState |-> WithPlayer(state, playerId, h.player),
                              messages |-> << h.message >> ]
                   ELSE [ success |-> FALSE,
                          newState |-> state,
                          messages |-> << "Player " \o playerId \o " not found" >> ]
          [] e.target = "ally" ->
               LET allyId == FindOther(players, playerId)
               IN  IF ~Falsy(allyId)
                   THEN LET h == HealPlayer(Lookup(players, allyId), e.amount)
                        IN  [ success |-> TRUE,
                              newState |-> WithPlayer(state, allyId, h.player),
                              messages |-> << h.message >> ]
                   ELSE [ success |-> FALSE,
                          newState |-> state,
                          messages |-> << "No ally found" >> ]
          [] e.target = "all" ->
               [ success |-> TRUE,
                 newState |-> [state EXCEPT !.players =
                                 [i \in 1..Len(players) |->
                                     HealPlayer(players[i], e.amount).player]],
                 messages |-> [i \in 1..Len(players) |->
                                  HealPlayer(players[i], e.amount).message] ]

\* target === 'self' ? playerId : Object.keys(players).find(id => id !== playerId)
ResolveTarget(target, ctx) ==
    IF target = "self" THEN ctx.playerId
    ELSE FindOther(ctx.gameState.players, ctx.playerId)

\* A loop body that stops at an empty deck and never refills it.
DrawRefillNever(draftPlayer, messages) ==
    IF Len(draftPlayer.deck) = 0
    THEN [ player |-> draftPlayer, break |-> TRUE,
           messages |-> Append(messages,
                           draftPlayer.id \o " cannot draw - no cards available") ]
    ELSE [ player |-> draftPlayer, break |-> FALSE, messages |-> messages ]

\* A refill that copies the discard pile into the deck and leaves it where
\* it is.
DrawRefillCopy(draftPlayer, messages) ==
    IF Len(draftPlayer.deck) = 0
    THEN IF Len(draftPlayer.discardPile) = 0
         THEN [ player |-> draftPlayer, break |-> TRUE,
                messages |-> Append(messages,
                                draftPlayer.id \o " cannot draw - no cards available") ]
         ELSE [ player |-> [draftPlayer EXCEPT !.deck = draftPlayer.discardPile],
                break |-> FALSE,
                messages |-> Append(messages,
                                draftPlayer.id \o " shuffles discard pile into deck") ]
    ELSE [ player |-> draftPlayer, break |-> FALSE, messages |-> messages ]

\* The first half of the loop body of DrawCardEffect.execute: with an empty
\* deck, break when the discard pile is empty too, else move the discard pile
\* into the deck.
DrawRefill(draftPlayer, messages) ==
    IF Len(draftPlayer.deck) = 0
    THEN IF Len(draftPlayer.discardPile) = 0
         THEN [ player |-> draftPlayer, break |-> TRUE,
                messages |-> Append(messages,
                                draftPlayer.id \o " cannot draw - no cards available") ]
         ELSE [ player |-> [draftPlayer EXCEPT !.deck = draftPlayer.discardPile,
                                               !.discardPile = <<>>],
                break |-> FALSE,
                messages |-> Append(messages,
                                draftPlayer.id \o " shuffles discard pile into deck") ]
    ELSE [ player |-> draftPlayer, break |-> FALSE, messages |-> messages ]

\* A draw that takes the card at the head of the deck.
DrawPopHead(draftPlayer, cardsDrawn) ==
    IF Len(draftPlayer.deck) > 0
    THEN [ player |-> [draftPlayer EXCEPT
                          !.deck = Tail(draftPlayer.deck),
                          !.hand = Append(draftPlayer.hand, Head(draftPlayer.deck))],
           cardsDrawn |-> cardsDrawn + 1 ]
    ELSE [ player |-> draftPlayer, cardsDrawn |-> cardsDrawn ]

\* The second half of the loop body: deck.pop(), hand.push(card), cardsDrawn++.
DrawPop(draftPlayer, cardsDrawn) ==
    LET n == Len(draftPlayer.deck)
    IN  IF n > 0
        THEN [ player |-> [draftPlayer EXCEPT
                              !.deck = SubSeq(draftPlayer.deck, 1, n - 1),
                              !.hand = Append(draftPlayer.hand, draftPlayer.deck[n])],
               cardsDrawn |-> cardsDrawn + 1 ]
        ELSE [ player |-> draftPlayer, cardsDrawn |-> cardsDrawn ]

RECURSIVE DrawLoop(_, _, _, _, _)
\* The for loop of DrawCardEffect.execute from iteration i on:
\* [player, cardsDrawn, messages] when the loop ends.
DrawLoop(draftPlayer, i, count, cardsDrawn, messages) ==
    IF ~(i < count)
    THEN [ player |-> draftPlayer, cardsDrawn |-> cardsDrawn, messages |-> messages ]
    ELSE LET refill == DrawRefill(draftPlayer, messages)
             pop == DrawPop(refill.player, cardsDrawn)
         IN  IF refill.break
             THEN [ player |-> draftPlayer, cardsDrawn |-> cardsDrawn,
                    messages |-> refill.messages ]
             ELSE DrawLoop(pop.player, i + 1, count, pop.cardsDrawn, refill.messages)

\* What DrawCardEffect.execute returns once the loop has ended.
DrawResult(state, targetId, loop) ==
    [ success |-> TRUE,
      newState |-> WithPlayer(state, targetId, loop.player),
      messages |->
          IF loop.cardsDrawn > 0
          THEN Append(loop.messages,
                  targetId \o " draws " \o ToString(loop.cardsDrawn)
                  \o " card" \o (IF loop.cardsDrawn > 1 THEN "s" ELSE ""))
          ELSE loop.messages ]

\* DrawCardEffect.execute
DrawExecute(e, ctx) ==
    LET state == ctx.gameState
        targetId == ResolveTarget(e.target, ctx)
    IN  IF Falsy(targetId)
        THEN [ success |-> FALSE,
               newState |-> state,
               messages |-> << "No " \o e.target \o " player found" >> ]
        ELSE IF ~Has(state.players, targetId)
        THEN [ success |-> FALSE,
               newState |-> state,
               messages |-> << "Player " \o targetId \o " not found" >> ]
        ELSE DrawResult(state, targetId,
                 DrawLoop(Lookup(state.players, targetId), 0, e.count, 0, <<>>))

\* ResourceEffect.execute
ResourceExecute(e, ctx) ==
    LET state == ctx.gameState
        targetId == ResolveTarget(e.target, ctx)
    IN  IF Falsy(targetId)
        THEN [ success |-> FALSE,
               newState |-> state,
               messages |-> << "No " \o e.target \o " player found" >> ]
        ELSE IF ~Has(state.players, targetId)
        THEN [ success |-> FALSE,
               newState |-> state,
               messages |-> << "Player " \o targetId \o " not found" >> ]
        ELSE LET draftPlayer == Lookup(state.players, targetId)
                 currentAmount == ResourceAmount(draftPlayer.resources, e.resourceType)
                 set(amount) == WithPlayer(state, targetId,
                                   [draftPlayer EXCEPT !.resources =
                                       SetResource(@, e.resourceType, amount)])
             IN  CASE e.operation = "gain" ->
                        [ success |-> TRUE,
                          newState |-> set(currentAmount + e.amount),
                          messages |-> << targetId \o " gains " \o ToString(e.amount)
                                          \o " " \o e.resourceType >> ]
                   [] e.operation = "spend" ->
                        IF currentAmount < e.amount
                        THEN [ success |-> FALSE,
                               newState |-> state,
                               messages |-> << targetId \o " doesn't have enough "
                                               \o e.resourceType \o " ("
                                               \o ToString(currentAmount) \o "/"
                                               \o ToString(e.amount) \o ")" >> ]
                        ELSE [ success |-> TRUE,
                               newState |-> set(currentAmount - e.amount),
                               messages |-> << targetId \o " spends " \o ToString(e.amount)
                                               \o " " \o e.resourceType >> ]
                   [] e.operation = "set" ->
                        [ success |-> TRUE,
                          newState |-> set(e.amount),
                          messages |-> << targetId \o " " \o e.resourceType
                                          \o " set to " \o ToString(e.amount) >> ]

\* A subclass of the abstract Effect written by a content author, outside the
\* four primitives: it advances the top-level field `turn` and nothing else.
AdvanceTurnExecute(e, ctx) ==
    [ success |-> TRUE,
      newState |-> [ctx.gameState EXCEPT !.turn = @ + 1],
      messages |-> << "turn advanced" >> ]

(***************************************************************************)
(* Functions supplied by the content author.                               *)
(***************************************************************************)
\* The predicates (context) => boolean given to ConditionalEffect.
EvalPredicate(predicate, ctx) ==
    CASE predicate = "always" -> TRUE
      [] predicate = "never" -> FALSE
      [] predicate = "hasBonus" -> "bonus" \in DOMAIN ctx

\* The tests on the first result that a chainFn branches on.
ChainTest(test, firstResult) ==
    CASE test = "always" -> TRUE
      [] test = "anyDead" ->
           \E i \in 1..Len(firstResult.newState.players) :
               firstResult.newState.players[i].health = 0

\* this.chainFn(firstResult): the continuation (result) => Effect of ChainedEffect.
ApplyChainFn(chainFn, firstResult) ==
    IF ChainTest(chainFn.test, firstResult) THEN chainFn.then ELSE chainFn.else

(***************************************************************************)
(* Descriptions, computed at construction.                                 *)
(***************************************************************************)
RECURSIVE Join(_, _)
\* Array.prototype.join
Join(strs, sep) ==
    IF strs = <<>> THEN ""
    ELSE IF Len(strs) = 1 THEN strs[1]
    ELSE strs[1] \o sep \o Join(Tail(strs), sep)

RECURSIVE Description(_)
Description(e) ==
    CASE e.kind = "damage" ->
           "Deal " \o ToString(e.amount) \o " damage to " \o e.target
      [] e.kind = "heal" ->
           "Heal " \o ToString(e.amount) \o " to " \o e.target
      [] e.kind = "draw" ->
           "Draw " \o ToString(e.count) \o " card"
           \o (IF e.count > 1 THEN "s" ELSE "") \o " (" \o e.target \o ")"
      [] e.kind = "resource" ->
           e.operation \o " " \o ToString(e.amount) \o " " \o e.resourceType
           \o " (" \o e.target \o ")"
      [] e.kind = "advanceTurn" -> "Advance turn"
      [] e.kind = "composite" ->
           "Composite: "
           \o Join([i \in 1..Len(e.effects) |-> Description(e.effects[i])], ", ")
      [] e.kind = "sequential" ->
           "Sequential: "
           \o Join([i \in 1..Len(e.effects) |-> Description(e.effects[i])], " -> ")
      [] e.kind = "parallel" ->
           "Parallel: "
           \o Join([i \in 1..Len(e.effects) |-> Description(e.effects[i])], " | ")
      [] e.kind = "chained" -> "Chained: " \o Description(e.first) \o " -> (dynamic)"
      [] e.kind = "conditional" -> "Conditional: " \o Description(e.effect)
      [] e.kind = "repeated" ->
           "Repeat " \o ToString(e.times) \o "x: " \o Description(e.effect)
      [] e.kind = "contextual" ->
           "With context [" \o e.key \o "]: " \o Description(e.effect)

(***************************************************************************)
(* Combinators.  Run(e, ctx) is e.execute(ctx) together with a record of   *)
(* what the execution did: `calls`, the execute calls e made on its own    *)
(* children, in order, each with the context it passed; `chainArgs`, the   *)
(* results e passed to its chainFn.  Execute(e, ctx) is the EffectResult.  *)
(***************************************************************************)
RECURSIVE Run(_, _)
RECURSIVE CompositeLoop(_, _, _, _, _, _)
RECURSIVE SequentialLoop(_, _, _, _, _, _)
RECURSIVE RepeatedLoop(_, _, _, _, _, _)
RECURSIVE ParallelMerge(_, _)

Execute(e, ctx) == Run(e, ctx).result

Call(e, ctx) == [effect |-> e, context |-> ctx]

\* The for loop of CompositeEffect.execute from the i-th effect on: the loop's
\* variables when it ends (by exhausting the list, or by break).
CompositeLoop(effects, i, ctx, currentState, allMessages, made) ==
    IF i > Len(effects)
    THEN [ success |-> TRUE, currentState |-> currentState,
           allMessages |-> allMessages, calls |-> made ]
    ELSE LET childCtx == Spread(ctx, "gameState", currentState)
             r == Execute(effects[i], childCtx)
         IN  IF ~r.success
             THEN [ success |-> FALSE, currentState |-> r.newState,
                    allMessages |-> allMessages \o r.messages,
                    calls |-> Append(made, Call(effects[i], childCtx)) ]
             ELSE CompositeLoop(effects, i + 1, ctx, r.newState,
                                allMessages \o r.messages,
                                Append(made, Call(effects[i], childCtx)))

RECURSIVE CompositeLoopNoBreak(_, _, _, _, _, _, _)
\* Mutant: the loop without its break.
CompositeLoopNoBreak(effects, i, ctx, success, currentState, allMessages, made) ==
    IF i > Len(effects)
    THEN [ success |-> success, currentState |-> currentState,
           allMessages |-> allMessages, calls |-> made ]
    ELSE LET childCtx == Spread(ctx, "gameState", currentState)
             r == Execute(effects[i], childCtx)
         IN  CompositeLoopNoBreak(effects, i + 1, ctx, success /\ r.success,
                                  r.newState, allMessages \o r.messages,
                                  Append(made, Call(effects[i], childCtx)))

\* Mutant of CompositeExecute: a failing child does not stop the loop.
CompositeExecuteNoBreak(e, ctx) ==
    LET loop == CompositeLoopNoBreak(e.effects, 1, ctx, TRUE, ctx.gameState, <<>>, <<>>)
    IN  [ result |-> [ success |-> loop.success,
                       newState |-> loop.currentState,
                       messages |-> loop.allMessages ],
          calls |-> loop.calls, chainArgs |-> <<>> ]

\* CompositeEffect.execute
CompositeExecute(e, ctx) ==
    LET loop == CompositeLoop(e.effects, 1, ctx, ctx.gameState, <<>>, <<>>)
    IN  [ result |-> [ success |-> loop.success,
                       newState |-> loop.currentState,
                       messages |-> loop.allMessages ],
          calls |-> loop.calls, chainArgs |-> <<>> ]

\* The for loop of SequentialEffect.execute from the i-th effect on.
SequentialLoop(effects, i, ctx, currentState, allMessages, made) ==
    IF i > Len(effects)
    THEN [ result |-> [ success |-> TRUE,
                        newState |-> currentState,
                        messages |-> allMessages ],
           calls |-> made, chainArgs |-> <<>> ]
    ELSE LET childCtx == Spread(ctx, "gameState", currentState)
             r == Execute(effects[i], childCtx)
         IN  IF ~r.success
             THEN [ result |-> [ success |-> FALSE,
                                 newState |-> r.newState,
                                 messages |-> allMessages \o r.messages ],
                    calls |-> Append(made, Call(effects[i], childCtx)),
                    chainArgs |-> <<>> ]
             ELSE SequentialLoop(effects, i + 1, ctx, r.newState,
                                 allMessages \o r.messages,
                                 Append(made, Call(effects[i], childCtx)))

\* Mutant of SequentialExecute: a failure returns the input state.
SequentialExecuteRestoring(e, ctx) ==
    LET run == SequentialLoop(e.effects, 1, ctx, ctx.gameState, <<>>, <<>>)
    IN  IF run.result.success THEN run
        ELSE [run EXCEPT !.result.newState = ctx.gameState]

\* SequentialEffect.execute
SequentialExecute(e, ctx) ==
    SequentialLoop(e.effects, 1, ctx, ctx.gameState, <<>>, <<>>)

\* The for loop of RepeatedEffect.execute from iteration i on (i counts from
\* 0): the loop's variables when it ends.
RepeatedLoop(e, i, ctx, currentState, allMessages, made) ==
    IF ~(i < e.times)
    THEN [ success |-> TRUE, currentState |-> currentState,
           allMessages |-> allMessages, calls |-> made ]
    ELSE LET childCtx == Spread(ctx, "gameState", currentState)
             r == Execute(e.effect, childCtx)
         IN  IF ~r.success
             THEN [ success |-> FALSE, currentState |-> r.newState,
                    allMessages |-> allMessages \o r.messages,
                    calls |-> Append(made, Call(e.effect, childCtx)) ]
             ELSE RepeatedLoop(e, i + 1, ctx, r.newState,
                               allMessages \o r.messages,
                               Append(made, Call(e.effect, childCtx)))

\* Mutant of RepeatedExecute: the body runs once before the count is tested.
RepeatedExecuteAtLeastOnce(e, ctx) ==
    LET loop == RepeatedLoop([e EXCEPT !.times = IF @ < 1 THEN 1 ELSE @],
                             0, ctx, ctx.gameState, <<>>, <<>>)
    IN  [ result |-> [ success |-> loop.success,
                       newState |-> loop.currentState,
                       messages |-> loop.allMessages ],
          calls |-> loop.calls, chainArgs |-> <<>> ]

\* RepeatedEffect.execute
RepeatedExecute(e, ctx) ==
    LET loop == RepeatedLoop(e, 0, ctx, ctx.gameState, <<>>, <<>>)
    IN  [ result |-> [ success |-> loop.success,
                       newState |-> loop.currentState,
                       messages |-> loop.allMessages ],
          calls |-> loop.calls, chainArgs |-> <<>> ]

\* Mutant of ChainedExecute: the second effect runs against the input state.
ChainedExecuteStaleState(e, ctx) ==
    LET firstResult == Execute(e.first, ctx)
    IN  IF ~firstResult.success
        THEN [ result |-> firstResult,
               calls |-> << Call(e.first, ctx) >>,
               chainArgs |-> <<>> ]
        ELSE LET nextEffect == ApplyChainFn(e.chainFn, firstResult)
                 secondResult == Execute(nextEffect, ctx)
             IN  [ result |-> [ success |-> secondResult.success,
                                newState |-> secondResult.newState,
                                messages |-> firstResult.messages
                                             \o secondResult.messages ],
                   calls |-> << Call(e.first, ctx), Call(nextEffect, ctx) >>,
                   chainArgs |-> << firstResult >> ]

\* ChainedEffect.execute
ChainedExecute(e, ctx) ==
    LET firstResult == Execute(e.first, ctx)
    IN  IF ~firstResult.success
        THEN [ result |-> firstResult,
               calls |-> << Call(e.first, ctx) >>,
               chainArgs |-> <<>> ]
        ELSE LET nextEffect == ApplyChainFn(e.chainFn, firstResult)
                 nextCtx == Spread(ctx, "gameState", firstResult.newState)
                 secondResult == Execute(nextEffect, nextCtx)
             IN  [ result |-> [ success |-> secondResult.success,
                                newState |-> secondResult.newState,
                                messages |-> firstResult.messages
                                             \o secondResult.messages ],
                   calls |-> << Call(e.first, ctx), Call(nextEffect, nextCtx) >>,
                   chainArgs |-> << firstResult >> ]

\* ConditionalEffect.execute
ConditionalExecute(e, ctx) ==
    IF EvalPredicate(e.predicate, ctx)
    THEN [ result |-> Execute(e.effect, ctx),
           calls |-> << Call(e.effect, ctx) >>,
           chainArgs |-> <<>> ]
    ELSE [ result |-> [ success |-> TRUE,
                        newState |-> ctx.gameState,
                        messages |-> << "Condition not met for: "
                                        \o Description(e.effect) >> ],
           calls |-> <<>>, chainArgs |-> <<>> ]

\* ContextualEffect.execute
ContextualExecute(e, ctx) ==
    LET enhancedContext == Spread(ctx, e.key, e.value)
    IN  [ result |-> Execute(e.effect, enhancedContext),
          calls |-> << Call(e.effect, enhancedContext) >>,
          chainArgs |-> <<>> ]

\* Mutant of ShallowMerge: { ...newState, ...state }, the earlier value wins.
ShallowMergeKeepEarlier(state, newState) ==
    [f \in DOMAIN state \cup DOMAIN newState |->
        IF f \in DOMAIN state THEN state[f] ELSE newState[f]]

\* { ...state, ...newState }: every top-level field newState has overwrites state's.
ShallowMerge(state, newState) ==
    [f \in DOMAIN state \cup DOMAIN newState |->
        IF f \in DOMAIN newState THEN newState[f] ELSE state[f]]

\* results.reduce((state, result) => ({ ...state, ...result.newState }), state)
ParallelMerge(results, state) ==
    IF results = <<>> THEN state
    ELSE ParallelMerge(Tail(results), ShallowMerge(state, Head(results).newState))

\* Mutant of ParallelExecute: the children run as in a composite, each
\* against the state the previous one returned, up to the first failure.
ParallelExecuteThreaded(e, ctx) == CompositeExecute(e, ctx)

\* Mutant of ParallelExecute: the children's states are merged even when one
\* of them failed.
ParallelExecuteNoRollback(e, ctx) ==
    LET results == [i \in 1..Len(e.effects) |-> Execute(e.effects[i], ctx)]
    IN  [ result |-> [ success |-> \A i \in 1..Len(results) : results[i].success,
                       newState |-> ParallelMerge(results, ctx.gameState),
                       messages |-> Flatten([i \in 1..Len(results) |->
                                                results[i].messages]) ],
          calls |-> [i \in 1..Len(e.effects) |-> Call(e.effects[i], ctx)],
          chainArgs |-> <<>> ]

\* ParallelEffect.execute
ParallelExecute(e, ctx) ==
    LET results == [i \in 1..Len(e.effects) |-> Execute(e.effects[i], ctx)]
        success == \A i \in 1..Len(results) : results[i].success
        allMessages == Flatten([i \in 1..Len(results) |-> results[i].messages])
    IN  [ result |-> [ success |-> success,
                       newState |-> IF success
                                    THEN ParallelMerge(results, ctx.gameState)
                                    ELSE ctx.gameState,
                       messages |-> allMessages ],
          calls |-> [i \in 1..Len(e.effects) |-> Call(e.effects[i], ctx)],
          chainArgs |-> <<>> ]

\* A leaf's execution makes no call on a child.
Leaf(r) == [result |-> r, calls |-> <<>>, chainArgs |-> <<>>]

\* effect.execute(context), dispatched on the effect's class.
Run(e, ctx) ==
    CASE e.kind = "damage" -> Leaf(DamageExecute(e, ctx))
      [] e.kind = "heal" -> Leaf(HealExecute(e, ctx))
      [] e.kind = "draw" -> Leaf(DrawExecute(e, ctx))
      [] e.kind = "resource" -> Leaf(ResourceExecute(e, ctx))
      [] e.kind = "advanceTurn" -> Leaf(AdvanceTurnExecute(e, ctx))
      [] e.kind = "composite" -> CompositeExecute(e, ctx)
      [] e.kind = "sequential" -> SequentialExecute(e, ctx)
      [] e.kind = "parallel" -> ParallelExecute(e, ctx)
      [] e.kind = "chained" -> ChainedExecute(e, ctx)
      [] e.kind = "conditional" -> ConditionalExecute(e, ctx)
      [] e.kind = "repeated" -> RepeatedExecute(e, ctx)
      [] e.kind = "contextual" -> ContextualExecute(e, ctx)

(***************************************************************************)
(* The inputs: game states, acting players and effect trees.               *)
(***************************************************************************)
PlayerIds == {"A", "B"}

Player(id, health, resources, deck, discardPile) ==
    [ id |-> id, health |-> health, maxHealth |-> MaxHealth,
      hand |-> <<>>, deck |-> deck, discardPile |-> discardPile,
      resources |-> resources ]

\* The resources mappings of the input states: {} and { mana: m }.
ResourceMaps == { <<>> } \cup { [mana |-> m] : m \in 0..MaxResource }

\* A game of two players.
TwoPlayers(health, resources) ==
    [ players |-> << Player("A", health, resources, <<"c1">>, <<"c2">>),
                     Player("B", health, <<>>, <<>>, <<>>) >>,
      currentPlayer |-> "A", turn |-> 1, phase |-> "main" ]

\* A game whose only player has no opponent.
OnePlayer(health, resources) ==
    [ players |-> << Player("A", health, resources, <<>>, <<>>) >>,
      currentPlayer |-> "A", turn |-> 1, phase |-> "main" ]

States ==
    { TwoPlayers(h, r) : h \in 0..MaxHealth, r \in ResourceMaps }
    \cup { OnePlayer(MaxHealth, r) : r \in ResourceMaps }

\* { playerId, gameState, random, log }
Context(playerId, state) ==
    [ playerId |-> playerId, gameState |-> state,
      random |-> "random()", log |-> "log()" ]

Damage(amount, target) == [kind |-> "damage", amount |-> amount, target |-> target]
Heal(amount, target) == [kind |-> "heal", amount |-> amount, target |-> target]
DrawCard(count, target) == [kind |-> "draw", count |-> count, target |-> target]
Resource(resourceType, amount, operation, target) ==
    [ kind |-> "resource", resourceType |-> resourceType, amount |-> amount,
      operation |-> operation, target |-> target ]
AdvanceTurn == [kind |-> "advanceTurn"]
Composite(effects) == [kind |-> "composite", effects |-> effects]
Sequential(effects) == [kind |-> "sequential", effects |-> effects]
Parallel(effects) == [kind |-> "parallel", effects |-> effects]
Chained(first, chainFn) == [kind |-> "chained", first |-> first, chainFn |-> chainFn]
Conditional(e, predicate) ==
    [kind |-> "conditional", effect |-> e, predicate |-> predicate]
Repeated(e, times) == [kind |-> "repeated", effect |-> e, times |-> times]
Contextual(e, key, value) ==
    [kind |-> "contextual", effect |-> e, key |-> key, value |-> value]

DamageEffects == { Damage(a, t) : a \in 0..2, t \in {"self", "opponent", "all"} }
HealEffects == { Heal(a, t) : a \in 0..2, t \in {"self", "ally", "all"} }
DrawEffects == { DrawCard(c, t) : c \in -1..3, t \in {"self", "opponent"} }
ResourceEffects ==
    { Resource("mana", a, op, t) :
        a \in 1..2, op \in {"gain", "spend", "set"}, t \in {"self", "opponent"} }

\* The effects the combinators are built from: one that fails without an
\* opponent, one that always succeeds, one that fails without enough mana,
\* one that draws, and one that writes a top-level field other than `players`.
Kids ==
    { Damage(1, "opponent"),
      Resource("mana", 1, "gain", "self"),
      Resource("mana", 2, "spend", "self"),
      DrawCard(1, "self"),
      AdvanceTurn }

\* Combinators used as children of other combinators.
Nested ==
    { Composite(<< Damage(1, "opponent"), Resource("mana", 2, "spend", "self") >>),
      Sequential(<< Resource("mana", 1, "gain", "self"), Damage(1, "opponent") >>),
      Parallel(<< Resource("mana", 1, "gain", "self"), Damage(1, "opponent") >>),
      Repeated(Resource("mana", 2, "spend", "self"), 2),
      Chained(Resource("mana", 1, "gain", "self"),
              [ test |-> "always", then |-> Damage(1, "opponent"),
                else |-> AdvanceTurn ]),
      Conditional(Damage(1, "self"), "hasBonus"),
      Contextual(Heal(1, "self"), "playerId", "B") }

\* The sequences over S of length at most n.
ListsOf(S, n) == UNION { [1..k -> S] : k \in 0..n }

Lists ==
    ListsOf(Kids, MaxList)
    \cup { <<n, k>> : n \in Nested, k \in Kids }
    \cup { <<k, n>> : n \in Nested, k \in Kids }

ChainFns ==
    [ test : {"always", "anyDead"},
      then : Kids \cup Nested,
      else : { Resource("mana", 1, "gain", "self"), Damage(1, "opponent") } ]

Predicates == {"always", "never", "hasBonus"}

\* The key/value pairs given to withContext: an ephemeral key, and the names of
\* the context's own fields.
KeyValues ==
    { <<"bonus", 1>>, <<"playerId", "A">>, <<"playerId", "B">>,
      <<"gameState", TwoPlayers(MaxHealth, <<>>)>>,
      <<"gameState", OnePlayer(MaxHealth, <<>>)>> }

(***************************************************************************)
(* The state machine.  gameState is the immutable state the caller holds   *)
(* and playerId the acting player; an action builds one effect tree and    *)
(* executes it once against them.  Executing changes neither: the result   *)
(* carries a new state.                                                    *)
(***************************************************************************)
NoEffect == [kind |-> "none"]

\* No DrawCardEffect.execute is under way.
NotDrawing == [pc |-> "idle"]

Init ==
    /\ gameState \in States
    /\ effect = NoEffect
    /\ context = Context("A", gameState)
    /\ result = [success |-> TRUE, newState |-> gameState, messages |-> <<>>]
    /\ calls = <<>>
    /\ chainArgs = <<>>
    /\ drawing = NotDrawing
    /\ RestUnused

\* Nothing was executed yet.
Idle == effect = NoEffect

\* const result = e.execute({ playerId, gameState, random, log })
Apply(e, playerId) ==
    LET ctx == Context(playerId, gameState)
        run == Run(e, ctx)
    IN  /\ effect' = e
        /\ context' = ctx
        /\ result' = run.result
        /\ calls' = run.calls
        /\ chainArgs' = run.chainArgs
        /\ UNCHANGED <<gameState, drawing, restVars>>

ExecuteDamage ==
    /\ Idle
    /\ \E e \in DamageEffects, p \in PlayerIds : Apply(e, p)

ExecuteHeal ==
    /\ Idle
    /\ \E e \in HealEffects, p \in PlayerIds : Apply(e, p)

ExecuteDraw ==
    /\ Idle
    /\ \E e \in DrawEffects, p \in PlayerIds : Apply(e, p)

ExecuteResource ==
    /\ Idle
    /\ \E e \in ResourceEffects, p \in PlayerIds : Apply(e, p)

ExecuteAdvanceTurn ==
    /\ Idle
    /\ \E p \in PlayerIds : Apply(AdvanceTurn, p)

ExecuteComposite ==
    /\ Idle
    /\ \E l \in Lists, p \in PlayerIds : Apply(Composite(l), p)

ExecuteSequential ==
    /\ Idle
    /\ \E l \in Lists, p \in PlayerIds : Apply(Sequential(l), p)

ExecuteParallel ==
    /\ Idle
    /\ \E l \in Lists, p \in PlayerIds : Apply(Parallel(l), p)

ExecuteChained ==
    /\ Idle
    /\ \E first \in Kids \cup Nested, fn \in ChainFns, p \in PlayerIds :
          Apply(Chained(first, fn), p)

ExecuteConditional ==
    /\ Idle
    /\ \E e \in Kids \cup Nested, pred \in Predicates, p \in PlayerIds :
          Apply(Conditional(e, pred), p)

ExecuteRepeated ==
    /\ Idle
    /\ \E e \in Kids \cup Nested, times \in -1..MaxTimes, p \in PlayerIds :
          Apply(Repeated(e, times), p)

ExecuteContextual ==
    /\ Idle
    /\ \E e \in Kids \cup Nested \cup {Damage(1, "self")}, kv \in KeyValues,
          p \in PlayerIds :
          Apply(Contextual(e, kv[1], kv[2]), p)

Next ==
    \/ ExecuteDamage
    \/ ExecuteHeal
    \/ ExecuteDraw
    \/ ExecuteResource
    \/ ExecuteAdvanceTurn
    \/ ExecuteComposite
    \/ ExecuteSequential
    \/ ExecuteParallel
    \/ ExecuteChained
    \/ ExecuteConditional
    \/ ExecuteRepeated
    \/ ExecuteContextual

Spec == Init /\ [][Next]_vars

(***************************************************************************)
(* Properties.  In a state reached by an action, `effect` is the tree that *)
(* was executed, `context` the context it was given (whose gameState is    *)
(* the input state), `result` what it returned, `calls` the execute calls  *)
(* it made on its children and `chainArgs` the results it passed to its    *)
(* chainFn.                                                                *)
(***************************************************************************)
\* What the child called by c returned: c.effect.execute(c.context).
CallResult(c) == Execute(c.effect, c.context)

PrimitiveKinds == {"damage", "heal", "draw", "resource"}

RECURSIVE FromPrimitives(_)
\* e is built from the four primitives and the combinators, and its
\* contextual nodes name an ephemeral key, none of the context's own fields.
FromPrimitives(e) ==
    CASE e.kind \in PrimitiveKinds -> TRUE
      [] e.kind \in {"composite", "sequential", "parallel"} ->
           \A i \in 1..Len(e.effects) : FromPrimitives(e.effects[i])
      [] e.kind = "chained" ->
           /\ FromPrimitives(e.first)
           /\ FromPrimitives(e.chainFn.then)
           /\ FromPrimitives(e.chainFn.else)
      [] e.kind \in {"conditional", "repeated"} -> FromPrimitives(e.effect)
      [] e.kind = "contextual" ->
           /\ e.key \notin {"gameState", "playerId"}
           /\ FromPrimitives(e.effect)
      [] OTHER -> FALSE

RECURSIVE Reads(_, _)
\* Some predicate of the tree e reads the context's field `key`.
Reads(e, key) ==
    CASE e.kind \in {"composite", "sequential", "parallel"} ->
           \E i \in 1..Len(e.effects) : Reads(e.effects[i], key)
      [] e.kind = "chained" ->
           \/ Reads(e.first, key)
           \/ Reads(e.chainFn.then, key)
           \/ Reads(e.chainFn.else, key)
      [] e.kind = "conditional" ->
           \/ (e.predicate = "hasBonus" /\ key = "bonus")
           \/ Reads(e.effect, key)
      [] e.kind \in {"repeated", "contextual"} -> Reads(e.effect, key)
      [] OTHER -> FALSE

\* C1: whenever the execution of an effect tree built from the four primitives
\* and the combinators returns success=false, the returned newState equals the
\* input state.
C1_FailureReturnsInput ==
    (FromPrimitives(effect) /\ ~result.success) => result.newState = gameState

\* The results of the two children of a parallel, each against the input.
ChildResult(i) == Execute(effect.effects[i], context)

\* Child i of the executed parallel changes the top-level field `turn` only.
ChangesOnlyTurn(i) ==
    /\ ChildResult(i).newState.turn # gameState.turn
    /\ ChildResult(i).newState = [gameState EXCEPT !.turn = ChildResult(i).newState.turn]

\* Child i of the executed parallel changes the top-level field `players` only.
ChangesOnlyPlayers(i) ==
    /\ ChildResult(i).newState.players # gameState.players
    /\ ChildResult(i).newState =
          [gameState EXCEPT !.players = ChildResult(i).newState.players]

\* C2: a successful parallel of two children, one changing only `turn` and the
\* other only `players`, in either order, returns a state with both changes.
C2_DisjointFieldsBothKept ==
    \A i, j \in {1, 2} :
        ( /\ effect.kind = "parallel"
          /\ Len(effect.effects) = 2
          /\ result.success
          /\ i # j
          /\ ChangesOnlyTurn(i)
          /\ ChangesOnlyPlayers(j) )
        => /\ result.newState.turn = ChildResult(i).newState.turn
           /\ result.newState.players = ChildResult(j).newState.players

\* The executed effect is a successful parallel all of whose children (at least
\* one) change `players`.
AllChangePlayers ==
    /\ effect.kind = "parallel"
    /\ result.success
    /\ Len(effect.effects) >= 1
    /\ \A i \in 1..Len(effect.effects) :
          ChildResult(i).newState.players # gameState.players

\* C3: when every child of a successful parallel changes `players`, the final
\* players mapping is the last child's; a player the last child left as it was
\* is as in the input, whatever an earlier sibling did to it.
C3_LastPlayersWins ==
    AllChangePlayers =>
        LET n == Len(effect.effects)
            last == ChildResult(n).newState.players
        IN  /\ result.newState.players = last
            /\ \A k \in 1..Len(gameState.players) :
                  last[k] = gameState.players[k]
                  => result.newState.players[k] = gameState.players[k]

\* C3's case: an earlier sibling edited a player the last child did not touch.
C3_Witness ==
    /\ AllChangePlayers
    /\ \E i \in 1..(Len(effect.effects) - 1), k \in 1..Len(gameState.players) :
          /\ ChildResult(i).newState.players[k] # gameState.players[k]
          /\ ChildResult(Len(effect.effects)).newState.players[k] = gameState.players[k]

\* C4: a parallel calls every child, in list order, with the context it was
\* given itself; its success is the conjunction of the children's, its messages
\* the concatenation of theirs in list order.
C4_ParallelIndependent ==
    effect.kind = "parallel" =>
        LET n == Len(effect.effects)
        IN  /\ Len(calls) = n
            /\ \A i \in 1..n : calls[i] = Call(effect.effects[i], context)
            /\ result.success = (\A i \in 1..n : CallResult(calls[i]).success)
            /\ result.messages = Flatten([i \in 1..n |-> CallResult(calls[i]).messages])

\* C4's case: a child changed the state, the next one failed, and a later one
\* still ran, against the input state, and has its messages in the result.
C4_Witness ==
    /\ effect.kind = "parallel"
    /\ Len(calls) = 3
    /\ CallResult(calls[1]).newState # gameState
    /\ ~CallResult(calls[2]).success
    /\ calls[3].context.gameState = gameState
    /\ CallResult(calls[3]).messages # <<>>
    /\ Len(result.messages) = 3

\* The executed effect is a parallel with a failing child.
SomeChildFails ==
    /\ effect.kind = "parallel"
    /\ \E i \in 1..Len(effect.effects) : ~ChildResult(i).success

\* C5: a parallel with a failing child returns success=false and the input state.
C5_ParallelFailureRestores ==
    SomeChildFails => (~result.success /\ result.newState = gameState)

\* C5's case: beside the failing child, another child changed the state.
C5_Witness ==
    /\ SomeChildFails
    /\ \E i \in 1..Len(effect.effects) :
          ChildResult(i).success /\ ChildResult(i).newState # gameState

\* The children an ordered pipeline is to execute, in order.
PipelineChildren ==
    IF effect.kind = "repeated"
    THEN [i \in 1..(IF effect.times > 0 THEN effect.times ELSE 0) |-> effect.effect]
    ELSE effect.effects

\* C6: a composite, sequential or repeated executes its children in order and
\* none after the first that fails; its messages are those of the children it
\* executed, in order, the failing one's included.
C6_StopAtFirstFailure ==
    effect.kind \in {"composite", "sequential", "repeated"} =>
        LET n == Len(calls)
        IN  /\ n <= Len(PipelineChildren)
            /\ \A i \in 1..n : calls[i].effect = PipelineChildren[i]
            /\ \A i \in 1..(n - 1) : CallResult(calls[i]).success
            /\ n < Len(PipelineChildren) => (n >= 1 /\ ~CallResult(calls[n]).success)
            /\ result.success = (\A i \in 1..n : CallResult(calls[i]).success)
            /\ result.messages = Flatten([i \in 1..n |-> CallResult(calls[i]).messages])

\* C6's case: a child failed after one that succeeded and before one that was
\* therefore not executed.
C6_Witness ==
    /\ effect.kind = "composite"
    /\ Len(effect.effects) = 3
    /\ Len(calls) = 2
    /\ CallResult(calls[1]).messages # <<>>
    /\ ~CallResult(calls[2]).success
    /\ Len(result.messages) = 2

\* Each child of the executed pipeline received the state the previous child
\* returned, the first one the input state.
Threaded ==
    \A i \in 1..Len(calls) :
        calls[i].context =
            Spread(context, "gameState",
                   IF i = 1 THEN gameState ELSE CallResult(calls[i - 1]).newState)

\* C7: a composite and a sequential of the same list return the same result
\* for the same context, and both thread the state through their children.
C7_CompositeIsSequential ==
    /\ effect.kind = "composite" =>
          /\ result = Execute(Sequential(effect.effects), context)
          /\ Threaded
    /\ effect.kind = "sequential" =>
          /\ result = Execute(Composite(effect.effects), context)
          /\ Threaded

\* C7's case: a sequential whose second child received a state the first one
\* had changed, and failed.
C7_Witness ==
    /\ effect.kind = "sequential"
    /\ Len(calls) >= 2
    /\ calls[2].context.gameState # gameState
    /\ ~result.success

\* C8: a chained whose first effect fails returns that result and does not
\* call its continuation; otherwise it calls the continuation once, with the
\* first result, executes the effect it gets against the first newState, and
\* returns the second success and newState with both message lists.
C8_Chained ==
    effect.kind = "chained" =>
        LET firstResult == Execute(effect.first, context)
        IN  /\ calls[1] = Call(effect.first, context)
            /\ ~firstResult.success =>
                  /\ result = firstResult
                  /\ chainArgs = <<>>
                  /\ Len(calls) = 1
            /\ firstResult.success =>
                  /\ chainArgs = << firstResult >>
                  /\ Len(calls) = 2
                  /\ calls[2] = Call(ApplyChainFn(effect.chainFn, firstResult),
                                     Spread(context, "gameState", firstResult.newState))
                  /\ result.success = CallResult(calls[2]).success
                  /\ result.newState = CallResult(calls[2]).newState
                  /\ result.messages =
                        firstResult.messages \o CallResult(calls[2]).messages

\* C8's case: the first effect changed the state, and the continuation chose,
\* from the first result, an effect that then ran against the changed state.
C8_Witness ==
    /\ effect.kind = "chained"
    /\ effect.chainFn.test = "anyDead"
    /\ effect.chainFn.then # effect.chainFn.else
    /\ Len(calls) = 2
    /\ Len(chainArgs) = 1
    /\ ChainTest("anyDead", chainArgs[1])
    /\ ~ChainTest("anyDead", [chainArgs[1] EXCEPT !.newState = gameState])
    /\ calls[2].effect = effect.chainFn.then
    /\ calls[2].context.gameState # gameState
    /\ CallResult(calls[2]).newState # calls[2].context.gameState

\* C9: a repeated of count n returns what a composite of max(n, 0) copies of
\* its effect returns; for n <= 0 that is success, the input state, no message.
C9_RepeatedIsComposite ==
    effect.kind = "repeated" =>
        /\ result = Execute(Composite(PipelineChildren), context)
        /\ effect.times <= 0 =>
              result = [success |-> TRUE, newState |-> gameState, messages |-> <<>>]

\* C9's case: a repeated that ran its effect more than once and changed the
\* state.
C9_Witness ==
    /\ effect.kind = "repeated"
    /\ effect.times >= 2
    /\ Len(calls) = effect.times
    /\ calls[2].context.gameState # gameState
    /\ result.success

\* C10: a contextual, whatever its key and value, returns what its wrapped
\* effect returns when executed directly on the same context.
C10_ContextualIsTransparent ==
    (effect.kind = "contextual" /\ ~Reads(effect.effect, effect.key))
    => result = Execute(effect.effect, context)

(***************************************************************************)
(* A game of damage and healing.  The caller keeps the state an execution  *)
(* returns and executes the next effect against it:                        *)
(*     gameState = effect.execute({ playerId, gameState, ... }).newState   *)
(* After a step, `context.gameState` is the state the step started from    *)
(* and `gameState` the state it produced.                                  *)
(***************************************************************************)
MaxAmount == 3      \* largest amount of a damage or heal of the game

\* The acting players: C plays in the game of three and not in the game of two.
ActingPlayers == {"A", "B", "C"}

\* Games of three and of two players, everyone at full health.
HealthStates ==
    { [ players |-> << Player("A", MaxHealth, <<>>, <<>>, <<>>),
                       Player("B", MaxHealth, <<>>, <<>>, <<>>),
                       Player("C", MaxHealth, <<>>, <<>>, <<>>) >>,
        currentPlayer |-> "A", turn |-> 1, phase |-> "main" ],
      [ players |-> << Player("B", MaxHealth, <<>>, <<>>, <<>>),
                       Player("A", MaxHealth, <<>>, <<>>, <<>>) >>,
        currentPlayer |-> "B", turn |-> 1, phase |-> "main" ] }

HealthInit ==
    /\ gameState \in HealthStates
    /\ effect = NoEffect
    /\ context = Context("A", gameState)
    /\ result = [success |-> TRUE, newState |-> gameState, messages |-> <<>>]
    /\ calls = <<>>
    /\ chainArgs = <<>>
    /\ drawing = NotDrawing
    /\ RestUnused

\* gameState = e.execute({ playerId, gameState, random, log }).newState
Play(e, playerId) ==
    LET ctx == Context(playerId, gameState)
        run == Run(e, ctx)
    IN  /\ effect' = e
        /\ context' = ctx
        /\ result' = run.result
        /\ calls' = run.calls
        /\ chainArgs' = run.chainArgs
        /\ gameState' = run.result.newState
        /\ UNCHANGED <<drawing, restVars>>

PlayDamage ==
    \E a \in 0..MaxAmount, t \in {"self", "opponent", "all"}, p \in ActingPlayers :
        Play(Damage(a, t), p)

PlayHeal ==
    \E a \in 0..MaxAmount, t \in {"self", "ally", "all"}, p \in ActingPlayers :
        Play(Heal(a, t), p)

HealthNext ==
    \/ PlayDamage
    \/ PlayHeal

SpecHealth == HealthInit /\ [][HealthNext]_vars

\* C11: after any sequence of damage and heal executions with non-negative
\* amounts, on any target and by any acting player, every player's health is
\* between 0 and maxHealth, and every maxHealth is the one the game started
\* with.
C11_HealthWithinBounds ==
    \A i \in 1..Len(gameState.players) :
        /\ 0 <= gameState.players[i].health
        /\ gameState.players[i].health <= gameState.players[i].maxHealth
        /\ gameState.players[i].maxHealth = MaxHealth

\* A damage larger than the health its target had left, after earlier steps,
\* and a heal larger than the health its target was missing.
C11_Witness ==
    \E i \in 1..Len(gameState.players) :
        LET before == context.gameState.players[i]
            after == gameState.players[i]
        IN  \/ /\ effect.kind = "damage"
               /\ 0 < before.health /\ before.health < MaxHealth
               /\ before.health < effect.amount
               /\ after.health = 0
            \/ /\ effect.kind = "heal"
               /\ 0 < before.health /\ before.health < MaxHealth
               /\ before.maxHealth - before.health < effect.amount
               /\ after.health = after.maxHealth

\* The required target of a primitive cannot be resolved: the target is self
\* and the acting player is not in the players mapping, or the target is
\* opponent or ally and no player has an id other than the acting player's.
Unresolved(e, ctx) ==
    LET players == ctx.gameState.players
    IN  \/ /\ e.target = "self"
           /\ \A i \in 1..Len(players) : players[i].id # ctx.playerId
        \/ /\ e.target \in {"opponent", "ally"}
           /\ \A i \in 1..Len(players) : players[i].id = ctx.playerId

\* C12: a damage, heal, draw or resource effect whose required target cannot
\* be resolved returns success = false, the input state as newState, and at
\* least one message.
C12_UnresolvedTargetFails ==
    (effect.kind \in PrimitiveKinds /\ Unresolved(effect, context))
    => /\ ~result.success
       /\ result.newState = context.gameState
       /\ Len(result.messages) >= 1

\* A resource effect on the opponent, executed in a game of one player.
C12_Witness ==
    /\ effect.kind = "resource"
    /\ effect.target = "opponent"
    /\ Unresolved(effect, context)
    /\ Len(context.gameState.players) = 1
    /\ result.messages = << "No opponent player found" >>

\* C13: a damage on the opponent, executed by a player p of a game that has
\* another player, affects exactly the first player of the mapping whose id
\* differs from p: that player loses min(amount, health) health, the result
\* is a success with the one message "<id> takes <actual> damage", and every
\* other player's record, currentPlayer, turn and phase are unchanged.
C13_DamageOpponentFrame ==
    LET input == context.gameState
        old == input.players
        p == context.playerId
    IN  ( /\ effect.kind = "damage"
          /\ effect.target = "opponent"
          /\ \E i \in 1..Len(old) : old[i].id # p )
        => LET k == CHOOSE i \in 1..Len(old) :
                        /\ old[i].id # p
                        /\ \A j \in 1..(i - 1) : old[j].id = p
               actual == Min(effect.amount, old[k].health)
           IN  /\ result.success
               /\ result.messages =
                      << old[k].id \o " takes " \o ToString(actual) \o " damage" >>
               /\ result.newState.players =
                      [old EXCEPT ![k] = [old[k] EXCEPT !.health = old[k].health - actual]]
               /\ result.newState.currentPlayer = input.currentPlayer
               /\ result.newState.turn = input.turn
               /\ result.newState.phase = input.phase

\* The first player of a game of three damages the opponent: the second and
\* the third player both differ from the acting one, and the second is hit.
C13_Witness ==
    /\ effect.kind = "damage"
    /\ effect.target = "opponent"
    /\ Len(context.gameState.players) = 3
    /\ context.playerId = context.gameState.players[1].id
    /\ context.gameState.players[2].health > effect.amount
    /\ effect.amount > 0
    /\ result.newState.players[2].health
           = context.gameState.players[2].health - effect.amount
    /\ result.newState.players[3] = context.gameState.players[3]

(***************************************************************************)
(* A game of drawing, with DrawCardEffect.execute taken one loop step at a *)
(* time.  `drawing` is the execution under way: its position (pc), the     *)
(* resolved target, the draft of the target's PlayerState that the recipe  *)
(* mutates, the loop counter i, cardsDrawn and the messages pushed so far. *)
(* At pc = "loop" the loop condition is about to be tested, at "pop" the   *)
(* first half of the body has run, at "end" the loop was left by `break`.  *)
(* The caller keeps the returned state and draws again.                    *)
(***************************************************************************)
MaxCount == 3       \* largest count of a draw of the game

\* Games of two players with cards in their decks and discard piles.
DrawStates ==
    { [ players |-> << Player("A", MaxHealth, <<>>, <<"c1", "c2">>, <<"c3", "c4">>),
                       Player("B", MaxHealth, <<>>, <<>>, <<"c5", "c6">>) >>,
        currentPlayer |-> "A", turn |-> 1, phase |-> "main" ],
      [ players |-> << Player("A", MaxHealth, <<>>, <<>>, <<>>),
                       Player("B", MaxHealth, <<>>, <<"c1">>, <<"c2">>) >>,
        currentPlayer |-> "A", turn |-> 1, phase |-> "main" ] }

DrawInit ==
    /\ gameState \in DrawStates
    /\ effect = NoEffect
    /\ context = Context("A", gameState)
    /\ result = [success |-> TRUE, newState |-> gameState, messages |-> <<>>]
    /\ calls = <<>>
    /\ chainArgs = <<>>
    /\ drawing = NotDrawing
    /\ RestUnused

\* execute is entered and resolves its target; without one it returns at once.
DrawBegin ==
    /\ drawing.pc = "idle"
    /\ \E c \in -1..MaxCount, t \in {"self", "opponent"}, p \in PlayerIds \cup {"Z"} :
          LET e == DrawCard(c, t)
              ctx == Context(p, gameState)
              targetId == ResolveTarget(t, ctx)
          IN  /\ effect' = e
              /\ context' = ctx
              /\ UNCHANGED <<gameState, calls, chainArgs, restVars>>
              /\ IF ~Falsy(targetId) /\ Has(gameState.players, targetId)
                 THEN /\ drawing' = [ pc |-> "loop", targetId |-> targetId,
                                      draftPlayer |-> Lookup(gameState.players, targetId),
                                      i |-> 0, count |-> c, cardsDrawn |-> 0,
                                      messages |-> <<>> ]
                      /\ UNCHANGED result
                 ELSE /\ result' = DrawExecute(e, ctx)
                      /\ UNCHANGED drawing

\* i < this.count holds: the deck is looked at, and refilled when empty.
DrawRefillStep ==
    /\ drawing.pc = "loop"
    /\ drawing.i < drawing.count
    /\ LET refill == DrawRefill(drawing.draftPlayer, drawing.messages)
       IN  drawing' = [drawing EXCEPT
                          !.pc = IF refill.break THEN "end" ELSE "pop",
                          !.draftPlayer = refill.player,
                          !.messages = refill.messages]
    /\ UNCHANGED <<effectVars, restVars>>

\* The card is popped and pushed onto the hand; i++.
DrawPopStep ==
    /\ drawing.pc = "pop"
    /\ LET pop == DrawPop(drawing.draftPlayer, drawing.cardsDrawn)
       IN  drawing' = [drawing EXCEPT
                          !.pc = "loop",
                          !.draftPlayer = pop.player,
                          !.cardsDrawn = pop.cardsDrawn,
                          !.i = @ + 1]
    /\ UNCHANGED <<effectVars, restVars>>

\* The loop is over: execute returns, and the caller keeps the new state.
DrawEnd ==
    /\ \/ drawing.pc = "end"
       \/ drawing.pc = "loop" /\ ~(drawing.i < drawing.count)
    /\ result' = DrawResult(gameState, drawing.targetId,
                     [ player |-> drawing.draftPlayer,
                       cardsDrawn |-> drawing.cardsDrawn,
                       messages |-> drawing.messages ])
    /\ gameState' = result'.newState
    /\ drawing' = NotDrawing
    /\ UNCHANGED <<effect, context, calls, chainArgs, restVars>>

DrawNext ==
    \/ DrawBegin
    \/ DrawRefillStep
    \/ DrawPopStep
    \/ DrawEnd

SpecDraw == DrawInit /\ [][DrawNext]_vars

Max(a, b) == IF a > b THEN a ELSE b

\* C14: a draw whose target is resolved returns success = true, and the
\* target's hand has grown by exactly min(max(count, 0), |deck| + |discardPile|)
\* cards of the input state: by none when both piles were empty.
C14_DrawCount ==
    ( /\ drawing.pc = "idle"
      /\ effect.kind = "draw"
      /\ ~Unresolved(effect, context) )
    => LET targetId == ResolveTarget(effect.target, context)
           old == Lookup(context.gameState.players, targetId)
           new == Lookup(result.newState.players, targetId)
       IN  /\ result.success
           /\ Len(new.hand) - Len(old.hand)
                  = Min(Max(effect.count, 0), Len(old.deck) + Len(old.discardPile))

\* A draw of more cards than the deck and the discard pile hold together,
\* both non-empty: the hand gets them all.
C14_Witness ==
    /\ drawing.pc = "idle"
    /\ effect.kind = "draw"
    /\ ~Unresolved(effect, context)
    /\ LET targetId == ResolveTarget(effect.target, context)
           old == Lookup(context.gameState.players, targetId)
           new == Lookup(result.newState.players, targetId)
       IN  /\ Len(old.deck) > 0
           /\ Len(old.discardPile) > 0
           /\ effect.count > Len(old.deck) + Len(old.discardPile)
           /\ Len(new.hand) = Len(old.hand) + Len(old.deck) + Len(old.discardPile)
           /\ new.deck = <<>>
           /\ new.discardPile = <<>>

\* One step of the loop of a draw, from the draft player p to the draft
\* player q.
C15_Step ==
    (drawing.pc \in {"loop", "pop"} /\ drawing'.pc \in {"loop", "pop", "end"})
    => LET p == drawing.draftPlayer
           q == drawing'.draftPlayer
           atTop == drawing.pc = "loop" /\ drawing.i < drawing.count
       IN  \* the discard pile moves only at an empty deck, whole and in order
           /\ q.discardPile # p.discardPile
              => /\ atTop
                 /\ p.deck = <<>>
                 /\ q.deck = p.discardPile
                 /\ q.discardPile = <<>>
                 /\ q.hand = p.hand
           /\ (atTop /\ p.deck = <<>> /\ p.discardPile # <<>>)
              => q.discardPile # p.discardPile
           \* after the move the loop goes on to draw, in the same iteration
           /\ (atTop /\ (p.deck # <<>> \/ p.discardPile # <<>>))
              => drawing'.pc = "pop"
           \* a draw takes the card at the tail of the deck to the tail of the hand
           /\ drawing.pc = "pop"
              => /\ p.deck # <<>>
                 /\ q.hand = Append(p.hand, p.deck[Len(p.deck)])
                 /\ q.deck = SubSeq(p.deck, 1, Len(p.deck) - 1)
                 /\ q.discardPile = p.discardPile
                 /\ drawing'.cardsDrawn = drawing.cardsDrawn + 1
           /\ q.hand # p.hand => drawing.pc = "pop"

\* C15: within one draw, the discard pile is moved into the deck only at an
\* iteration that finds the deck empty and the discard pile non-empty; the
\* move keeps the order of the cards and empties the discard pile; each draw
\* moves the card at the tail of the deck to the tail of the hand; and after
\* the move the same execution goes on drawing.
C15_ReshuffleOnlyWhenEmpty == [][C15_Step]_vars

\* A draw that emptied the deck, moved the discard pile into it, drew from
\* the refilled deck and has iterations left.
C15_Witness ==
    /\ drawing.pc = "loop"
    /\ drawing.i < drawing.count
    /\ Len(Lookup(gameState.players, drawing.targetId).deck) > 0
    /\ Len(drawing.messages) = 1
    /\ drawing.cardsDrawn > Len(Lookup(gameState.players, drawing.targetId).deck)
    /\ drawing.draftPlayer.discardPile = <<>>
    /\ drawing.draftPlayer.deck # <<>>

(***************************************************************************)
(* Resource effects on players who hold several resources.  One effect is  *)
(* executed against the state the caller holds.                            *)
(***************************************************************************)
ResourceTypes == {"mana", "gold"}

\* The resources mappings: {}, { mana }, { gold } and { mana, gold }.
Purses ==
    { <<>> }
    \cup { [mana |-> m] : m \in 0..MaxResource }
    \cup { [gold |-> g] : g \in 0..MaxResource }
    \cup { [mana |-> m, gold |-> g] : m \in 0..MaxResource, g \in 0..MaxResource }

ResourceStates ==
    { [ players |-> << Player("A", MaxHealth, a, <<>>, <<>>),
                       Player("B", MaxHealth, b, <<>>, <<>>) >>,
        currentPlayer |-> "A", turn |-> 1, phase |-> "main" ] :
      a \in Purses, b \in { <<>>, [mana |-> 1, gold |-> 1] } }

ResourceInit ==
    /\ gameState \in ResourceStates
    /\ effect = NoEffect
    /\ context = Context("A", gameState)
    /\ result = [success |-> TRUE, newState |-> gameState, messages |-> <<>>]
    /\ calls = <<>>
    /\ chainArgs = <<>>
    /\ drawing = NotDrawing
    /\ RestUnused

SpendResource ==
    /\ Idle
    /\ \E r \in ResourceTypes, a \in -1..(MaxResource + 1),
          t \in {"self", "opponent"}, p \in PlayerIds \cup {"Z"} :
          Apply(Resource(r, a, "spend", t), p)

GainResource ==
    /\ Idle
    /\ \E r \in ResourceTypes, a \in 0..MaxResource,
          t \in {"self", "opponent"}, p \in PlayerIds \cup {"Z"} :
          Apply(Resource(r, a, "gain", t), p)

AssignResource ==
    /\ Idle
    /\ \E r \in ResourceTypes, a \in 0..MaxResource,
          t \in {"self", "opponent"}, p \in PlayerIds \cup {"Z"} :
          Apply(Resource(r, a, "set", t), p)

ResourceNext ==
    \/ SpendResource
    \/ GainResource
    \/ AssignResource

SpecResource == ResourceInit /\ [][ResourceNext]_vars

\* C16: a spend whose target is resolved fails when the target holds less
\* than the amount (0 when the resource is unset), returning the input state
\* and a message with "<current>/<amount>"; otherwise it succeeds, the
\* resource becomes current - amount, and every other resource, every other
\* field of the target and every other player are unchanged.
C16_Spend ==
    ( /\ effect.kind = "resource"
      /\ effect.operation = "spend"
      /\ ~Unresolved(effect, context) )
    => LET input == context.gameState
           targetId == ResolveTarget(effect.target, context)
           k == IndexOf(input.players, targetId)
           old == input.players[k]
           new == result.newState.players[k]
           r == effect.resourceType
           current == IF r \in DOMAIN old.resources THEN old.resources[r] ELSE 0
       IN  IF current < effect.amount
           THEN /\ ~result.success
                /\ result.newState = input
                /\ \E i \in 1..Len(result.messages) :
                       result.messages[i] =
                           targetId \o " doesn't have enough " \o r \o " ("
                           \o ToString(current) \o "/" \o ToString(effect.amount) \o ")"
           ELSE /\ result.success
                /\ new.resources[r] = current - effect.amount
                /\ DOMAIN new.resources = DOMAIN old.resources \cup {r}
                /\ \A t \in DOMAIN old.resources \ {r} :
                       new.resources[t] = old.resources[t]
                /\ new = [old EXCEPT !.resources = new.resources]
                /\ result.newState = [input EXCEPT !.players[k] = new]

\* A successful spend of mana by a player who also holds gold.
C16_Witness ==
    /\ effect.kind = "resource"
    /\ effect.operation = "spend"
    /\ effect.resourceType = "mana"
    /\ effect.amount > 0
    /\ result.success
    /\ LET k == IndexOf(context.gameState.players,
                        ResolveTarget(effect.target, context))
       IN  /\ "gold" \in DOMAIN context.gameState.players[k].resources
           /\ context.gameState.players[k].resources.gold > 0
           /\ result.newState.players[k].resources.mana
                  = context.gameState.players[k].resources.mana - effect.amount

(***************************************************************************)
(* The capability registry (class Context).  `contexts` holds the Context  *)
(* objects made so far, a registry value being an index into it; each has  *)
(* the two Maps `providers` and `services`, kept as functions from ids.  A  *)
(* provider is named by the object passed to register; its provide() makes *)
(* a new service instance on every call, as the providers of               *)
(* defaultContext do.  An instance is [provider, key, maker, nth]: the nth  *)
(* instance that the provider made for the id `key` when called by the     *)
(* Context `maker`; two instances are the same object exactly when these   *)
(* are equal.                                                              *)
(* `history[c]` remembers of the Context c: the Context it was made from   *)
(* and how, the instances it held when made, how often each provider was   *)
(* invoked on it, and the instances its provide(id) calls returned.        *)
(* `lastCall` is the last call made: for register and fork with what it    *)
(* returned and the Context objects as they were before it, for provide    *)
(* with whether it threw and whether it invoked the provider.              *)
(***************************************************************************)
MaxContexts == 3    \* most Context objects made
MaxInstances == 3   \* most service instances made

ServiceIds == {"logger", "random"}
Providers == {"p1", "p2"}

\* No instance: what a provide call that throws returns.
NoInstance == [provider |-> "none", key |-> "none", maker |-> 0, nth |-> 0]

\* Map.prototype.set
MapSet(map, key, value) ==
    [k \in DOMAIN map \cup {key} |-> IF k = key THEN value ELSE map[k]]

\* new Context()
EmptyContext == [providers |-> <<>>, services |-> <<>>]

\* this.copyFrom(other), as the Context `this` becomes
CopyFrom(this, other) ==
    [ providers |->
          [k \in DOMAIN this.providers \cup DOMAIN other.providers |->
              IF k \in DOMAIN other.providers
              THEN other.providers[k] ELSE this.providers[k]],
      services |->
          [k \in DOMAIN this.services \cup DOMAIN other.services |->
              IF k \in DOMAIN other.services
              THEN other.services[k] ELSE this.services[k]] ]

\* this.addProvider(id, provider), as the Context `this` becomes
AddProvider(this, id, provider) ==
    [this EXCEPT !.providers = MapSet(@, id, provider)]

\* A register that writes the provider into the receiver and returns it.
RegisterInPlace(heap, r, id, provider) ==
    [ heap |-> [heap EXCEPT ![r] = AddProvider(@, id, provider)],
      returned |-> r ]

\* heap[r].register(id, provider): the objects afterwards and the one returned
Register(heap, r, id, provider) ==
    [ heap |-> Append(heap, AddProvider(CopyFrom(EmptyContext, heap[r]), id, provider)),
      returned |-> Len(heap) + 1 ]

\* heap[r].fork()
Fork(heap, r) ==
    [ heap |-> Append(heap, CopyFrom(EmptyContext, heap[r])),
      returned |-> Len(heap) + 1 ]

\* this.has(id)
HasService(this, id) == id \in DOMAIN this.providers \/ id \in DOMAIN this.services

\* A provide that does not keep the instance it made.
ProvideUncached(this, id, maker, nth) ==
    IF id \in DOMAIN this.services
    THEN [ context |-> this, throws |-> FALSE, invoked |-> FALSE,
           returned |-> this.services[id] ]
    ELSE IF id \notin DOMAIN this.providers
    THEN [ context |-> this, throws |-> TRUE, invoked |-> FALSE,
           returned |-> NoInstance ]
    ELSE [ context |-> this, throws |-> FALSE, invoked |-> TRUE,
           returned |-> [ provider |-> this.providers[id], key |-> id,
                          maker |-> maker, nth |-> nth ] ]

\* A provide memoized per provider, not per Context: every Context gets the
\* one instance of the provider.
ProvideSingleton(this, id, maker, nth) ==
    IF id \in DOMAIN this.services
    THEN [ context |-> this, throws |-> FALSE, invoked |-> FALSE,
           returned |-> this.services[id] ]
    ELSE IF id \notin DOMAIN this.providers
    THEN [ context |-> this, throws |-> TRUE, invoked |-> FALSE,
           returned |-> NoInstance ]
    ELSE LET service == [ provider |-> this.providers[id], key |-> id,
                          maker |-> 0, nth |-> 1 ]
         IN  [ context |-> [this EXCEPT !.services = MapSet(@, id, service)],
               throws |-> FALSE, invoked |-> TRUE,
               returned |-> service ]

\* this.provide(id): the Context afterwards, whether it threw, whether the
\* provider was invoked, and the instance returned.  `maker` and `nth` tell
\* which instance provider.provide() makes when it is called.
Provide(this, id, maker, nth) ==
    IF id \in DOMAIN this.services
    THEN [ context |-> this, throws |-> FALSE, invoked |-> FALSE,
           returned |-> this.services[id] ]
    ELSE IF id \notin DOMAIN this.providers
    THEN [ context |-> this, throws |-> TRUE, invoked |-> FALSE,
           returned |-> NoInstance ]
    ELSE LET service == [ provider |-> this.providers[id], key |-> id,
                          maker |-> maker, nth |-> nth ]
         IN  [ context |-> [this EXCEPT !.services = MapSet(@, id, service)],
               throws |-> FALSE, invoked |-> TRUE,
               returned |-> service ]

\* The instances cached on the Context `this`.
Cached(this) == { this.services[id] : id \in DOMAIN this.services }

\* What is remembered of a Context just made from `parent` by `via`,
\* holding the instances `inherited`.
Born(parent, via, inherited) ==
    [ parent |-> parent, via |-> via, inherited |-> inherited,
      invoked |-> [id \in ServiceIds |-> 0],
      returned |-> [id \in ServiceIds |-> {}] ]

\* A fixed game that the registry never looks at.
EffectsUnused ==
    /\ gameState = OnePlayer(MaxHealth, <<>>)
    /\ effect = NoEffect
    /\ context = Context("A", gameState)
    /\ result = [success |-> TRUE, newState |-> gameState, messages |-> <<>>]
    /\ calls = <<>>
    /\ chainArgs = <<>>
    /\ drawing = NotDrawing

\* new Context().register('logger', { provide: () => new ConsoleLogger() })
RegistryInit ==
    /\ EffectsUnused
    /\ contexts = << AddProvider(EmptyContext, "logger", "p1") >>
    /\ created = 0
    /\ history = << Born(0, "new", {}) >>
    /\ lastCall = NoCall
    /\ BusUnused
    /\ StorageUnused

RegisterStep ==
    /\ Len(contexts) < MaxContexts
    /\ \E r \in 1..Len(contexts), id \in ServiceIds, provider \in Providers :
          LET reg == Register(contexts, r, id, provider)
          IN  /\ contexts' = reg.heap
              /\ history' = IF reg.returned > Len(history)
                            THEN Append(history,
                                        Born(r, "register", Cached(contexts[r])))
                            ELSE history
              /\ lastCall' = [ op |-> "register", receiver |-> r, id |-> id,
                               returned |-> reg.returned, before |-> contexts ]
    /\ UNCHANGED <<created, effectVars, drawing, busVars, storageVars>>

ForkStep ==
    /\ Len(contexts) < MaxContexts
    /\ \E r \in 1..Len(contexts) :
          LET fork == Fork(contexts, r)
          IN  /\ contexts' = fork.heap
              /\ history' = Append(history, Born(r, "fork", Cached(contexts[r])))
              /\ lastCall' = [ op |-> "fork", receiver |-> r,
                               returned |-> fork.returned, before |-> contexts ]
    /\ UNCHANGED <<created, effectVars, drawing, busVars, storageVars>>

ProvideStep ==
    \E c \in 1..Len(contexts), id \in ServiceIds :
        LET p == Provide(contexts[c], id, c, history[c].invoked[id] + 1)
        IN  /\ p.invoked => created < MaxInstances
            /\ contexts' = [contexts EXCEPT ![c] = p.context]
            /\ created' = IF p.invoked THEN created + 1 ELSE created
            /\ history' =
                   [history EXCEPT
                       ![c].invoked[id] = IF p.invoked THEN @ + 1 ELSE @,
                       ![c].returned[id] = IF p.throws THEN @ ELSE @ \cup {p.returned}]
            /\ lastCall' = [ op |-> "provide", throws |-> p.throws,
                             invoked |-> p.invoked ]
            /\ UNCHANGED <<effectVars, drawing, busVars, storageVars>>

RegistryNext ==
    \/ RegisterStep
    \/ ForkStep
    \/ ProvideStep

SpecRegistry == RegistryInit /\ [][RegistryNext]_vars

\* What provide(id) comes to on the Context with index c, were it `this`:
\* a failure or an instance.
Outcome(this, c, id) ==
    LET p == Provide(this, id, c, history[c].invoked[id] + 1)
    IN  [throws |-> p.throws, returned |-> p.returned]

\* C17: register(id, provider) leaves the receiver as it was: has(id) and
\* the outcome of provide(id) on the receiver are, for every id, what they
\* were before the call; and the registry returned has every id the receiver
\* had, and the new id.
C17_RegisterKeepsReceiver ==
    lastCall.op = "register"
    => LET r == lastCall.receiver
           old == lastCall.before[r]
           new == contexts[r]
           ret == contexts[lastCall.returned]
       IN  /\ \A id \in ServiceIds :
                  /\ HasService(new, id) = HasService(old, id)
                  /\ Outcome(new, r, id) = Outcome(old, r, id)
                  /\ HasService(old, id) => HasService(ret, id)
           /\ HasService(ret, lastCall.id)

\* A register of an id the receiver did not have, on a receiver that holds a
\* cached instance: the receiver still fails to provide the new id.
C17_Witness ==
    /\ lastCall.op = "register"
    /\ ~HasService(lastCall.before[lastCall.receiver], lastCall.id)
    /\ Outcome(contexts[lastCall.receiver], lastCall.receiver, lastCall.id).throws
    /\ DOMAIN contexts[lastCall.receiver].services # {}
    /\ HasService(contexts[lastCall.returned], lastCall.id)
    /\ lastCall.returned # lastCall.receiver

\* C18: on every registry value the provider of an id has been invoked at
\* most once, and all the provide(id) calls made on it have returned one and
\* the same instance.
C18_ProvideMemoized ==
    \A c \in 1..Len(contexts), id \in ServiceIds :
        /\ history[c].invoked[id] <= 1
        /\ Cardinality(history[c].returned[id]) <= 1

\* On the only registry there is, a provide that found the instance an
\* earlier provide had made: the provider is not invoked again.
C18_Witness ==
    /\ Len(contexts) = 1
    /\ lastCall.op = "provide"
    /\ ~lastCall.throws
    /\ ~lastCall.invoked
    /\ history[1].invoked["logger"] = 1
    /\ history[1].returned["logger"] = { contexts[1].services["logger"] }

RECURSIVE DescendsFrom(_, _)
\* The Context d is a, or was made by register or fork from one that
\* descends from a.
DescendsFrom(d, a) ==
    \/ d = a
    \/ /\ history[d].parent # 0
       /\ DescendsFrom(history[d].parent, a)

\* The forks made so far.
Forks == { f \in 1..Len(contexts) : history[f].via = "fork" }

\* The two sides of the fork f of r: f and its descendants, and r with its
\* other descendants.
ForkSide(f) == { d \in 1..Len(contexts) : DescendsFrom(d, f) }
OriginSide(f) ==
    { d \in 1..Len(contexts) : DescendsFrom(d, history[f].parent) } \ ForkSide(f)

\* C19: after f = r.fork(), a register on one side of the fork changes
\* neither has(id) nor the outcome of provide(id) on any registry of the
\* other side, and an instance that both sides hold was cached before the
\* fork: what provide makes on one side after the fork is never what provide
\* returns on the other.
C19_ForkIsolates ==
    \A f \in Forks :
        /\ \A x \in OriginSide(f), y \in ForkSide(f) :
               Cached(contexts[x]) \cap Cached(contexts[y]) \subseteq history[f].inherited
        /\ lastCall.op = "register"
           => \A c \in 1..Len(lastCall.before) :
                  ( \/ lastCall.receiver \in ForkSide(f) /\ c \in OriginSide(f)
                    \/ lastCall.receiver \in OriginSide(f) /\ c \in ForkSide(f) )
                  => \A id \in ServiceIds :
                         /\ HasService(contexts[c], id)
                                = HasService(lastCall.before[c], id)
                         /\ Outcome(contexts[c], c, id)
                                = Outcome(lastCall.before[c], c, id)

\* After a fork both sides have provided the same id, each getting an
\* instance of its own from the one provider, and a register was then made
\* on the fork's side, of an id the other side does not have.
C19_Witness ==
    \E f \in Forks :
        LET r == history[f].parent
        IN  /\ "logger" \in DOMAIN contexts[r].services
            /\ "logger" \in DOMAIN contexts[f].services
            /\ contexts[r].services["logger"] # contexts[f].services["logger"]
            /\ contexts[r].services["logger"].provider
                   = contexts[f].services["logger"].provider
            /\ lastCall.op = "register"
            /\ lastCall.receiver \in ForkSide(f)
            /\ lastCall.returned \in ForkSide(f)
            /\ HasService(contexts[lastCall.returned], lastCall.id)
            /\ ~HasService(contexts[r], lastCall.id)

(***************************************************************************)
(* The event bus (class SimpleEventBus).  `handlers` is the Map from an    *)
(* event to its Set of handlers, a Set being an index into `handlerSets`;  *)
(* a Set is the sequence of its elements in insertion order, which is the  *)
(* order a for...of loop visits them in.  Each element is kept with        *)
(* `since`, the number of the subscribe call that added it.                *)
(* `unsubscribes` are the functions the subscribe calls returned, each     *)
(* with the Set, the handler and the event it has captured, and with       *)
(* `called`, whether it has been called at all.  A handler                 *)
(* either returns or throws; `lastEmit` holds what the last emit did: the  *)
(* handlers it called, in order, the errors it logged, and whether an      *)
(* error reached its caller.                                               *)
(***************************************************************************)
MaxSubscriptions == 3   \* most subscribe calls made

Events == {"e1", "e2"}
Handlers == {"h1", "h2", "boom"}

\* Whether a call of the handler throws.
Throws(handler) == handler = "boom"

\* The index of the handler in the Set, 0 when it is not an element.
Position(set, handler) ==
    IF \E k \in 1..Len(set) : set[k].handler = handler
    THEN CHOOSE k \in 1..Len(set) : set[k].handler = handler
    ELSE 0

\* Set.prototype.add: a new element goes to the end, an old one stays.
SetAdd(set, handler, since) ==
    IF Position(set, handler) # 0 THEN set
    ELSE Append(set, [handler |-> handler, since |-> since])

\* Set.prototype.delete
SetDelete(set, handler) ==
    LET k == Position(set, handler)
    IN  IF k = 0 THEN set
        ELSE SubSeq(set, 1, k - 1) \o SubSeq(set, k + 1, Len(set))

\* Map.prototype.delete
MapDelete(map, key) == [k \in DOMAIN map \ {key} |-> map[k]]

RECURSIVE EmitLoopNoCatch(_, _)
\* A loop that calls the handlers without try/catch.
EmitLoopNoCatch(eventHandlers, k) ==
    IF k > Len(eventHandlers)
    THEN [calls |-> <<>>, logged |-> <<>>, propagated |-> FALSE]
    ELSE IF Throws(eventHandlers[k].handler)
    THEN [calls |-> << eventHandlers[k].handler >>, logged |-> <<>>,
          propagated |-> TRUE]
    ELSE LET rest == EmitLoopNoCatch(eventHandlers, k + 1)
         IN  [rest EXCEPT !.calls = << eventHandlers[k].handler >> \o @]

RECURSIVE EmitLoop(_, _)
\* for (const handler of eventHandlers) { try { handler(data) } catch ... },
\* from the k-th element on.
EmitLoop(eventHandlers, k) ==
    IF k > Len(eventHandlers)
    THEN [calls |-> <<>>, logged |-> <<>>, propagated |-> FALSE]
    ELSE LET handler == eventHandlers[k].handler
             rest == EmitLoop(eventHandlers, k + 1)
         IN  [ calls |-> << handler >> \o rest.calls,
               logged |-> IF Throws(handler)
                          THEN << handler >> \o rest.logged ELSE rest.logged,
               propagated |-> rest.propagated ]

\* An emit whose handler errors are not caught.
EmitNoCatch(map, sets, event) ==
    IF event \in DOMAIN map
    THEN EmitLoopNoCatch(sets[map[event]], 1)
    ELSE [calls |-> <<>>, logged |-> <<>>, propagated |-> FALSE]

\* SimpleEventBus.emit(event)
Emit(map, sets, event) ==
    IF event \in DOMAIN map
    THEN EmitLoop(sets[map[event]], 1)
    ELSE [calls |-> <<>>, logged |-> <<>>, propagated |-> FALSE]

\* new SimpleEventBus()
BusInit ==
    /\ EffectsUnused
    /\ contexts = <<>>
    /\ created = 0
    /\ history = <<>>
    /\ lastCall = NoCall
    /\ handlers = <<>>
    /\ handlerSets = <<>>
    /\ unsubscribes = <<>>
    /\ lastEmit = NoEmit
    /\ StorageUnused

\* SimpleEventBus.subscribe(event, handler)
Subscribe ==
    /\ Len(unsubscribes) < MaxSubscriptions
    /\ \E event \in Events, handler \in Handlers :
          LET fresh == event \notin DOMAIN handlers
              sets == IF fresh THEN Append(handlerSets, <<>>) ELSE handlerSets
              map == IF fresh THEN MapSet(handlers, event, Len(sets)) ELSE handlers
              eventHandlers == map[event]
          IN  /\ handlers' = map
              /\ handlerSets' =
                     [sets EXCEPT ![eventHandlers] =
                         SetAdd(@, handler, Len(unsubscribes) + 1)]
              /\ unsubscribes' =
                     Append(unsubscribes,
                            [ event |-> event, eventHandlers |-> eventHandlers,
                              handler |-> handler, called |-> FALSE ])
    /\ lastEmit' = NoEmit
    /\ UNCHANGED <<effectVars, drawing, registryVars, storageVars>>

\* A call of a function that subscribe returned; any of them, any number of
\* times.
Unsubscribe ==
    /\ \E u \in 1..Len(unsubscribes) :
          LET f == unsubscribes[u]
              sets == [handlerSets EXCEPT ![f.eventHandlers] = SetDelete(@, f.handler)]
          IN  /\ handlerSets' = sets
              /\ handlers' = IF Len(sets[f.eventHandlers]) = 0
                             THEN MapDelete(handlers, f.event)
                             ELSE handlers
              /\ unsubscribes' = [unsubscribes EXCEPT ![u].called = TRUE]
    /\ lastEmit' = NoEmit
    /\ UNCHANGED <<effectVars, drawing, registryVars, storageVars>>

\* SimpleEventBus.emit(event)
EmitStep ==
    /\ \E event \in Events :
          LET emit == Emit(handlers, handlerSets, event)
          IN  lastEmit' = [ op |-> "emit", event |-> event, calls |-> emit.calls,
                            logged |-> emit.logged,
                            propagated |-> emit.propagated ]
    /\ UNCHANGED <<handlers, handlerSets, unsubscribes, effectVars, drawing,
                   registryVars, storageVars>>

BusNext ==
    \/ Subscribe
    \/ Unsubscribe
    \/ EmitStep

SpecBus == BusInit /\ [][BusNext]_vars

\* The Set of the event on the bus, empty when the bus has none.
Subscribed(event) ==
    IF event \in DOMAIN handlers THEN handlerSets[handlers[event]] ELSE <<>>

\* C20: emit(event) calls every handler that the bus holds for the event
\* exactly once and no other handler, in the order of the subscribe calls
\* that added them; a handler that throws stops none of the later ones, and
\* no error reaches the caller of emit.
C20_EmitCallsAllInOrder ==
    lastEmit.op = "emit"
    => LET set == Subscribed(lastEmit.event)
           called == lastEmit.calls
       IN  /\ ~lastEmit.propagated
           /\ \A k \in 1..Len(set) :
                  Cardinality({ i \in 1..Len(called) : called[i] = set[k].handler }) = 1
           /\ \A i \in 1..Len(called) : Position(set, called[i]) # 0
           /\ \A i, j \in 1..Len(called) :
                  i < j => set[Position(set, called[i])].since
                               < set[Position(set, called[j])].since

\* An emit on an event whose first handler throws and whose second handler
\* is called all the same, while the other event has a handler of its own
\* that is not called.
C20_Witness ==
    /\ lastEmit.op = "emit"
    /\ lastEmit.calls = << "boom", "h1" >>
    /\ lastEmit.logged = << "boom" >>
    /\ \E other \in Events \ {lastEmit.event} :
           /\ Len(Subscribed(other)) = 1
           /\ Subscribed(other)[1].handler = "h2"

\* The handlers subscribed to the event by a subscribe call such that no
\* function returned by a subscribe call of that handler to that event has
\* been called: handlers nobody has unsubscribed.
NeverUnsubscribed(event) ==
    { h \in Handlers :
        /\ \E u \in 1..Len(unsubscribes) :
               unsubscribes[u].event = event /\ unsubscribes[u].handler = h
        /\ \A u \in 1..Len(unsubscribes) :
               (unsubscribes[u].event = event /\ unsubscribes[u].handler = h)
               => ~unsubscribes[u].called }

\* The handlers subscribed to the event by a subscribe call whose own
\* function has not been called.
StillSubscribed(event) ==
    { unsubscribes[u].handler :
        u \in { v \in 1..Len(unsubscribes) :
                  unsubscribes[v].event = event /\ ~unsubscribes[v].called } }

\* C21: after any subscribe, unsubscribe and emit calls, emit(event) calls
\* the handlers that subscribed to the event and whose unsubscribe function
\* has not been called, and no others: every handler that was subscribed
\* and that nobody unsubscribed is called (an unsubscribe function removes
\* no handler but its own), and every handler called has a subscription
\* whose unsubscribe function has not been called.
C21_UnsubscribeRemovesOnlyItsOwn ==
    lastEmit.op = "emit"
    => LET called == { lastEmit.calls[i] : i \in 1..Len(lastEmit.calls) }
       IN  /\ NeverUnsubscribed(lastEmit.event) \subseteq called
           /\ called \subseteq StillSubscribed(lastEmit.event)

(***************************************************************************)
(* The storage (class MemoryStorage).  `data` is the Map from keys to the  *)
(* values stored.  A JavaScript value is a record of its kind and its      *)
(* content: undefined, null, a boolean, a number, NaN, a string, or an     *)
(* object, whose `members` are its own properties in insertion order       *)
(* (each a key with a value that is not an object).  save, load, exists    *)
(* and delete are async functions without an await: a call runs to its     *)
(* end at once, and its promise is fulfilled with what the body returned   *)
(* or rejected with what it threw.  `saved` holds, for each key, the value *)
(* its caller last saved it with, and `lastStorage` the last load or       *)
(* exists call and what its promise was fulfilled with.                    *)
(***************************************************************************)
Value(kind, bool, num, str, members) ==
    [kind |-> kind, bool |-> bool, num |-> num, str |-> str, members |-> members]

JsUndefined == Value("undefined", FALSE, 0, "", <<>>)
JsNull == Value("null", FALSE, 0, "", <<>>)
JsNaN == Value("NaN", FALSE, 0, "", <<>>)
JsBoolean(b) == Value("boolean", b, 0, "", <<>>)
JsNumber(n) == Value("number", FALSE, n, "", <<>>)
JsString(s) == Value("string", FALSE, 0, s, <<>>)
JsObject(members) == Value("object", FALSE, 0, "", members)

\* The values a member of an object has.
MemberValues == { JsNumber(0), JsNumber(1), JsString("") }

\* The values the callers of save pass.
Values ==
    { JsUndefined, JsNull, JsNaN, JsBoolean(FALSE), JsBoolean(TRUE),
      JsNumber(0), JsNumber(1), JsString(""), JsString("a"),
      JsObject(<<>>) }
    \cup { JsObject(<< [key |-> "a", value |-> v] >>) : v \in MemberValues }

Keys == {"k1", "k2"}

\* ToBoolean: undefined, null, NaN, false, 0 and the empty string are falsy,
\* every object is truthy.
Truthy(v) ==
    CASE v.kind = "boolean" -> v.bool
      [] v.kind = "number" -> v.num # 0
      [] v.kind = "string" -> v.str # ""
      [] v.kind = "object" -> TRUE
      [] OTHER -> FALSE

\* The JSON text of a value that is not an object; NaN is written as null.
PrimitiveText(v) ==
    CASE v.kind = "null" -> "null"
      [] v.kind = "NaN" -> "null"
      [] v.kind = "boolean" -> (IF v.bool THEN "true" ELSE "false")
      [] v.kind = "number" -> ToString(v.num)
      [] v.kind = "string" -> "\"" \o v.str \o "\""
      [] OTHER -> Undefined

RECURSIVE MembersText(_, _)
\* The JSON text of the members of an object from the k-th on.
MembersText(members, k) ==
    IF k > Len(members) THEN ""
    ELSE (IF k > 1 THEN "," ELSE "")
         \o "\"" \o members[k].key \o "\":" \o PrimitiveText(members[k].value)
         \o MembersText(members, k + 1)

\* JSON.stringify(v): the JSON text of the value, undefined for undefined.
Stringify(v) ==
    IF v.kind = "object" THEN "{" \o MembersText(v.members, 1) \o "}"
    ELSE PrimitiveText(v)

\* The values JSON texts stand for: neither undefined nor NaN.
JsonValues == { v \in Values : v.kind \notin {"undefined", "NaN"} }

\* JSON.parse(text): the value the text stands for, built anew; a
\* SyntaxError when the text is not JSON, as for undefined.
Parse(text) ==
    IF \E v \in JsonValues : Stringify(v) = text
    THEN [throws |-> FALSE, value |-> CHOOSE v \in JsonValues : Stringify(v) = text]
    ELSE [throws |-> TRUE, value |-> JsUndefined]

\* MemoryStorage.save(key, data)
Save(map, key, v) ==
    LET copy == Parse(Stringify(v))
    IN  IF copy.throws THEN [data |-> map, throws |-> TRUE]
        ELSE [data |-> MapSet(map, key, copy.value), throws |-> FALSE]

\* MemoryStorage.load(key)
Load(map, key) ==
    LET got == IF key \in DOMAIN map THEN map[key] ELSE JsUndefined
    IN  IF Truthy(got) THEN Parse(Stringify(got)).value ELSE JsNull

\* MemoryStorage.exists(key)
Exists(map, key) == key \in DOMAIN map

\* MemoryStorage.delete(key)
Delete(map, key) == MapDelete(map, key)

\* new MemoryStorage()
StorageInit ==
    /\ EffectsUnused
    /\ contexts = <<>>
    /\ created = 0
    /\ history = <<>>
    /\ lastCall = NoCall
    /\ BusUnused
    /\ data = <<>>
    /\ saved = <<>>
    /\ lastStorage = NoCall

SaveStep ==
    /\ \E key \in Keys, v \in Values :
          LET save == Save(data, key, v)
          IN  /\ data' = save.data
              /\ saved' = IF save.throws THEN saved ELSE MapSet(saved, key, v)
    /\ lastStorage' = NoCall
    /\ UNCHANGED <<effectVars, drawing, registryVars, busVars>>

LoadStep ==
    /\ \E key \in Keys :
          lastStorage' = [op |-> "load", key |-> key, value |-> Load(data, key)]
    /\ UNCHANGED <<data, saved, effectVars, drawing, registryVars, busVars>>

ExistsStep ==
    /\ \E key \in Keys :
          lastStorage' = [op |-> "exists", key |-> key, found |-> Exists(data, key)]
    /\ UNCHANGED <<data, saved, effectVars, drawing, registryVars, busVars>>

DeleteStep ==
    /\ \E key \in Keys :
          /\ data' = Delete(data, key)
          /\ saved' = MapDelete(saved, key)
    /\ lastStorage' = NoCall
    /\ UNCHANGED <<effectVars, drawing, registryVars, busVars>>

StorageNext ==
    \/ SaveStep
    \/ LoadStep
    \/ ExistsStep
    \/ DeleteStep

SpecStorage == StorageInit /\ [][StorageNext]_vars

\* A value that a JSON round trip gives back equal: all but undefined and NaN.
Storable(v) ==
    LET copy == Parse(Stringify(v)) IN ~copy.throws /\ copy.value = v

\* C22: after save(k, v) of a storable value v, falsy ones included, with
\* no later save or delete of k, load(k) returns a value equal to v; and
\* load(k) of a key that exists(k) denies returns the absent result, null.
\* (That load returns null only for such a key is asked of the values
\* other than null alone, which the first part covers.)
C22_LoadReturnsSaved ==
    lastStorage.op = "load"
    => LET k == lastStorage.key
       IN  /\ (k \in DOMAIN saved /\ Storable(saved[k]))
                  => lastStorage.value = saved[k]
           /\ ~Exists(data, k) => lastStorage.value = JsNull

\* C23: when register(id, f) is called on a registry that holds a cached
\* instance for id, provide(id) on the registry returned invokes the
\* provider f just registered and returns the instance f makes, not the
\* instance the receiver had cached.
C23_RegisterOverCachedUsesNewFactory ==
    ( /\ lastCall.op = "register"
      /\ lastCall.id \in DOMAIN lastCall.before[lastCall.receiver].services )
    => LET id == lastCall.id
           c == lastCall.returned
           p == Provide(contexts[c], id, c, history[c].invoked[id] + 1)
       IN  /\ ~p.throws
           /\ p.invoked
           /\ p.returned.provider = contexts[c].providers[id]
           /\ p.returned # lastCall.before[lastCall.receiver].services[id]

\* The cards of a pile.
CardsOf(pile) == { pile[k] : k \in 1..Len(pile) }

\* A pile holds no card twice.
Distinct(pile) == Cardinality(CardsOf(pile)) = Len(pile)

\* All the cards a player has.
CardsHeld(player) ==
    CardsOf(player.hand) \cup CardsOf(player.deck) \cup CardsOf(player.discardPile)

\* Each card of each player of the state is in one place, once.
PilesDisjoint(state) ==
    /\ \A k \in 1..Len(state.players) :
           LET player == state.players[k]
           IN  /\ Distinct(player.hand \o player.deck \o player.discardPile)
    /\ \A j, k \in 1..Len(state.players) :
           j # k => CardsHeld(state.players[j]) \cap CardsHeld(state.players[k]) = {}

\* From one state of the game to the next every player keeps the cards held,
\* and no discard pile gains a card.
PilesKept ==
    /\ Len(gameState'.players) = Len(gameState.players)
    /\ \A k \in 1..Len(gameState.players) :
           LET old == gameState.players[k]
               new == gameState'.players[k]
           IN  /\ new.id = old.id
               /\ CardsHeld(new) = CardsHeld(old)
               /\ CardsOf(new.discardPile) \subseteq CardsOf(old.discardPile)

\* C24: from a state whose hands, decks and discard piles are pairwise
\* disjoint, after any sequence of draws (any count, target and acting
\* player) the piles of every player are still pairwise disjoint and hold
\* together the cards they held at the start: no card is lost, duplicated
\* or moved to another player, and no discard pile ever gains a card.
C24_PilesPartition == [](PilesDisjoint(gameState)) /\ [][PilesKept]_vars

\* A player who drew three cards through a refill: the hand holds two cards
\* of the first deck and one of the first discard pile, the other card of
\* the discard pile is the deck, and the discard pile is empty.
C24_Witness ==
    /\ drawing.pc = "idle"
    /\ result.success
    /\ Len(result.messages) = 2
    /\ \E k \in 1..Len(gameState.players) :
           LET player == gameState.players[k]
           IN  /\ player.hand = << "c2", "c1", "c4" >>
               /\ player.deck = << "c3" >>
               /\ player.discardPile = <<>>

====
